---- MODULE Spec2Model ----
(***************************************************************************)
(* The MCP-over-HTTP front end of src/mcp-rest.ts: the request handlers    *)
(* registered on the protocol Server (initialize, tools/list,              *)
(* resources/list, prompts/list, tools/call), the two express routes       *)
(* (POST /mcp, GET /health), the cleanup callback handed to                *)
(* setupProcessCleanup, the startup chain server.connect(...).then(...)    *)
(* and the process-level 'uncaughtException' / 'unhandledRejection'        *)
(* listeners.                                                              *)
(*                                                                         *)
(* The tool handlers, the browser manager and the session transport are    *)
(* collaborators: each of their calls completes with an outcome the        *)
(* environment chooses (a returned value, a raised value, or no completion *)
(* at all).  JavaScript values are records tagged by the field js.         *)
(***************************************************************************)
EXTENDS Integers, Sequences, FiniteSets, TLC

(***************************************************************************)
(* Bounds.                                                                 *)
(***************************************************************************)
\* POST /mcp exchanges of the whole-server specification Spec
MaxExchanges == 2
\* POST /mcp exchanges of the dispatcher specification SpecDispatch
MaxDispatch == 1
\* process-fatal events whose cleanup run is followed
MaxCleanups == 1

(***************************************************************************)
(* State.                                                                  *)
(***************************************************************************)
VARIABLES
  phase,     \* startup: "connecting", "listening" or "connectFailed"
  exited,    \* the process has ended
  exch,      \* the POST /mcp exchanges, by arrival
  sessions,  \* the session identifiers the transport has issued
  health,    \* the answer of the latest GET /health
  cleanup,   \* the runs of the cleanup callback
  log        \* what has been written to the console

vars == <<phase, exited, exch, sessions, health, cleanup, log>>

(***************************************************************************)
(* JavaScript values.                                                      *)
(***************************************************************************)
Undefined == [js |-> "undefined"]
JsNull == [js |-> "null"]
JsString(s) == [js |-> "string", str |-> s]
JsNumber(n) == [js |-> "number", num |-> n]
JsObject(fields) == [js |-> "object", fields |-> fields]
JsError(m) == [js |-> "Error", message |-> m]
EmptyMap == JsObject({})

\* `error instanceof Error`
InstanceOfError(v) == v.js = "Error"

\* `value || {}` picks the right operand for the falsy values
Falsy(v) ==
  \/ v.js \in {"undefined", "null"}
  \/ v.js = "string" /\ v.str = ""
  \/ v.js = "number" /\ v.num = 0

\* String(value)
String(v) ==
  CASE v.js = "string" -> v.str
    [] v.js = "number" -> ToString(v.num)
    [] v.js = "null" -> "null"
    [] v.js = "undefined" -> "undefined"
    [] v.js = "object" -> "[object Object]"
    [] v.js = "Error" -> IF v.message = "" THEN "Error" ELSE "Error: " \o v.message

\* a slot that holds nothing yet
None == [js |-> "none"]

(***************************************************************************)
(* The static data imported from ./utils/tool-definitions.js.              *)
(***************************************************************************)
TOOL_NAMES ==
  [BROWSER_INIT |-> "browser-init",
   NAVIGATE |-> "navigate",
   GET_CONTENT |-> "get-content",
   CLICK |-> "click",
   TYPE |-> "type",
   WAIT |-> "wait",
   BROWSER_CLOSE |-> "browser-close",
   SOLVE_CAPTCHA |-> "solve-captcha",
   RANDOM_SCROLL |-> "random-scroll",
   FIND_SELECTOR |-> "find-selector",
   SAVE_CONTENT_AS_MARKDOWN |-> "save-content-as-markdown"]

ToolDescriptor(n) == [name |-> n, inputSchema |-> "object"]

TOOLS ==
  <<ToolDescriptor("browser-init"), ToolDescriptor("navigate"),
    ToolDescriptor("get-content"), ToolDescriptor("click"),
    ToolDescriptor("type"), ToolDescriptor("wait"),
    ToolDescriptor("browser-close"), ToolDescriptor("solve-captcha"),
    ToolDescriptor("random-scroll"), ToolDescriptor("find-selector"),
    ToolDescriptor("save-content-as-markdown")>>

SERVER_INFO == [name |-> "puppeteer-real-browser-mcp-server"]

CAPABILITIES == {"tools", "resources", "prompts"}

(***************************************************************************)
(* The switch of the tools/call handler: the case labels in source order,  *)
(* the handler each case calls and how it passes the arguments:            *)
(*   "orEmpty"  handler(args || {})                                        *)
(*   "raw"      handler(args as unknown as T)                              *)
(*   "none"     handler()                                                  *)
(***************************************************************************)
\* variant: the switch without the case for RANDOM_SCROLL
SwitchCasesNoScroll ==
  <<[label |-> TOOL_NAMES.BROWSER_INIT, handler |-> "handleBrowserInit", pass |-> "orEmpty"],
    [label |-> TOOL_NAMES.NAVIGATE, handler |-> "handleNavigate", pass |-> "raw"],
    [label |-> TOOL_NAMES.GET_CONTENT, handler |-> "handleGetContent", pass |-> "orEmpty"],
    [label |-> TOOL_NAMES.CLICK, handler |-> "handleClick", pass |-> "raw"],
    [label |-> TOOL_NAMES.TYPE, handler |-> "handleType", pass |-> "raw"],
    [label |-> TOOL_NAMES.WAIT, handler |-> "handleWait", pass |-> "raw"],
    [label |-> TOOL_NAMES.BROWSER_CLOSE, handler |-> "handleBrowserClose", pass |-> "none"],
    [label |-> TOOL_NAMES.SOLVE_CAPTCHA, handler |-> "handleSolveCaptcha", pass |-> "raw"],
    [label |-> TOOL_NAMES.FIND_SELECTOR, handler |-> "handleFindSelector", pass |-> "raw"],
    [label |-> TOOL_NAMES.SAVE_CONTENT_AS_MARKDOWN, handler |-> "handleSaveContentAsMarkdown", pass |-> "raw"]>>

\* the switch as written
SwitchCases ==
  <<[label |-> TOOL_NAMES.BROWSER_INIT, handler |-> "handleBrowserInit", pass |-> "orEmpty"],
    [label |-> TOOL_NAMES.NAVIGATE, handler |-> "handleNavigate", pass |-> "raw"],
    [label |-> TOOL_NAMES.GET_CONTENT, handler |-> "handleGetContent", pass |-> "orEmpty"],
    [label |-> TOOL_NAMES.CLICK, handler |-> "handleClick", pass |-> "raw"],
    [label |-> TOOL_NAMES.TYPE, handler |-> "handleType", pass |-> "raw"],
    [label |-> TOOL_NAMES.WAIT, handler |-> "handleWait", pass |-> "raw"],
    [label |-> TOOL_NAMES.BROWSER_CLOSE, handler |-> "handleBrowserClose", pass |-> "none"],
    [label |-> TOOL_NAMES.SOLVE_CAPTCHA, handler |-> "handleSolveCaptcha", pass |-> "raw"],
    [label |-> TOOL_NAMES.RANDOM_SCROLL, handler |-> "handleRandomScroll", pass |-> "none"],
    [label |-> TOOL_NAMES.FIND_SELECTOR, handler |-> "handleFindSelector", pass |-> "raw"],
    [label |-> TOOL_NAMES.SAVE_CONTENT_AS_MARKDOWN, handler |-> "handleSaveContentAsMarkdown", pass |-> "raw"]>>

\* variant: no default branch, an unmatched name runs the last case
CaseIndexFallsThrough(name) ==
  IF \E i \in DOMAIN SwitchCases : SwitchCases[i].label = name
  THEN CHOOSE i \in DOMAIN SwitchCases :
         /\ SwitchCases[i].label = name
         /\ \A j \in DOMAIN SwitchCases : SwitchCases[j].label = name => i <= j
  ELSE Len(SwitchCases)

\* the first case whose label is strictly equal to name; 0 is the default branch
CaseIndex(name) ==
  IF \E i \in DOMAIN SwitchCases : SwitchCases[i].label = name
  THEN CHOOSE i \in DOMAIN SwitchCases :
         /\ SwitchCases[i].label = name
         /\ \A j \in DOMAIN SwitchCases : SwitchCases[j].label = name => i <= j
  ELSE 0

\* variant: every case that passes the arguments passes args || {}
ForwardArgsOrEmptyEverywhere(pass, args) ==
  CASE pass = "orEmpty" -> <<IF Falsy(args) THEN EmptyMap ELSE args>>
    [] pass = "raw" -> <<IF Falsy(args) THEN EmptyMap ELSE args>>
    [] pass = "none" -> <<>>

\* the argument list a case hands to its handler
ForwardArgs(pass, args) ==
  CASE pass = "orEmpty" -> <<IF Falsy(args) THEN EmptyMap ELSE args>>
    [] pass = "raw" -> <<args>>
    [] pass = "none" -> <<>>

\* variant: a case without `return`, control falls into the case below it
HandlerCallFallsThrough(name, args) ==
  IF CaseIndex(name) = 0 THEN <<>>
  ELSE [i \in 1..(IF CaseIndex(name) < Len(SwitchCases) THEN 2 ELSE 1) |->
          [handler |-> SwitchCases[CaseIndex(name) + i - 1].handler,
           args |-> ForwardArgs(SwitchCases[CaseIndex(name) + i - 1].pass, args)]]

\* the handler call a tools/call request leads to: <<>> on the default branch
HandlerCall(name, args) ==
  IF CaseIndex(name) = 0 THEN <<>>
  ELSE <<[handler |-> SwitchCases[CaseIndex(name)].handler,
          args |-> ForwardArgs(SwitchCases[CaseIndex(name)].pass, args)]>>

(***************************************************************************)
(* Completions: how a call ends, [kind |-> "return" | "raise", value].     *)
(***************************************************************************)
Return(v) == [kind |-> "return", value |-> v]
Raise(v) == [kind |-> "raise", value |-> v]

TextBlock(t) == [type |-> "text", text |-> t]

\* the text the catch block puts before the message; "(x)" stands for the
\* cross-mark character U+274C of the source, which is outside the ASCII set
FailurePrefix == "(x) Tool execution failed: "

\* variant: the message is String(error) for every raised value
CatchToolFailureStringified(error) ==
  [content |-> <<TextBlock(FailurePrefix \o String(error))>>,
   isError |-> TRUE]

\* the catch block of the tools/call handler
CatchToolFailure(error) ==
  LET errorMessage == IF InstanceOfError(error) THEN error.message ELSE String(error)
  IN [content |-> <<TextBlock(FailurePrefix \o errorMessage)>>,
      isError |-> TRUE]


\* variant: no catch block, a failure leaves the handler
CallToolRequestHandlerNoCatch(name, args, outcome) ==
  IF CaseIndex(name) = 0 THEN Raise(JsError("Unknown tool: " \o name)) ELSE outcome

\* variant: the handler's value is rebuilt as a success envelope
CallToolRequestHandlerRewrap(name, args, outcome) ==
  LET tried == IF CaseIndex(name) = 0
               THEN Raise(JsError("Unknown tool: " \o name))
               ELSE outcome
  IN IF tried.kind = "raise"
     THEN Return(CatchToolFailure(tried.value))
     ELSE Return([content |-> tried.value.content, isError |-> FALSE])

\* variant: the failure envelopes share one content array that every failure
\* pushes its block to
CallToolRequestHandlerSharedContent(name, args, outcome) ==
  LET tried == IF CaseIndex(name) = 0
               THEN Raise(JsError("Unknown tool: " \o name))
               ELSE outcome
      earlier == {o \in DOMAIN exch : /\ exch[o].st = "answered"
                                      /\ exch[o].dispatch # None
                                      /\ "isError" \in DOMAIN exch[o].dispatch.value}
  IN IF tried.kind = "raise"
     THEN Return([content |-> [i \in 1..(Cardinality(earlier) + 1) |->
                                 CatchToolFailure(tried.value).content[1]],
                  isError |-> TRUE])
     ELSE tried

\* the tools/call request handler (try, switch, catch), given how the handler
\* call, if the switch makes one, ends
CallToolRequestHandler(name, args, outcome) ==
  LET tried == IF CaseIndex(name) = 0
               THEN Raise(JsError("Unknown tool: " \o name))
               ELSE outcome
  IN IF tried.kind = "raise"
     THEN Return(CatchToolFailure(tried.value))
     ELSE tried

\* variant: the server answers with a version of its own
InitializeRequestHandlerFixed(request) ==
  Return([protocolVersion |-> "2024-11-05",
          capabilities |-> CAPABILITIES,
          serverInfo |-> SERVER_INFO])

\* the initialize request handler
InitializeRequestHandler(request) ==
  Return([protocolVersion |-> request.params.protocolVersion,
          capabilities |-> CAPABILITIES,
          serverInfo |-> SERVER_INFO])

\* variant: the registry is listed only to a client that has a session
ListToolsRequestHandlerAfterHandshake ==
  Return([tools |-> IF sessions = {} THEN <<>> ELSE TOOLS])

\* the tools/list, resources/list and prompts/list request handlers
ListToolsRequestHandler == Return([tools |-> TOOLS])
ListResourcesRequestHandler == Return([resources |-> <<>>])
ListPromptsRequestHandler == Return([prompts |-> <<>>])

\* the handlers that answer without calling a collaborator
StaticRequestHandler(request) ==
  CASE request.method = "initialize" -> InitializeRequestHandler(request)
    [] request.method = "tools/list" -> ListToolsRequestHandler
    [] request.method = "resources/list" -> ListResourcesRequestHandler
    [] request.method = "prompts/list" -> ListPromptsRequestHandler

\* what the request handlers write with console.error before they answer
HandlerLog(request) ==
  CASE request.method = "initialize" -> {"Initialize request received"}
    [] request.method = "tools/list" -> {"Tools list requested"}
    [] request.method = "tools/call" -> {"Tool call received"}
    [] OTHER -> {}

\* what the catch block of the tools/call handler writes
FailureLog(name, outcome) ==
  IF CaseIndex(name) = 0 \/ outcome.kind = "raise" THEN {"Tool failed"} ELSE {}

(***************************************************************************)
(* The route POST /mcp: what the exchange is answered with, given the      *)
(* dispatcher's completion and the fault (if any) that                     *)
(* transport.handleRequest raises: "decode" before the message reaches the *)
(* dispatcher, "transmit" after the dispatcher has completed and before    *)
(* anything is written, "late" after the transport has written the         *)
(* response.  A fault the dispatcher itself raises leaves                  *)
(* transport.handleRequest the same way.  `written` says that the          *)
(* transport wrote the response, `fallback` that the catch block ran       *)
(* res.status(500).json(...); status and body are those of the first       *)
(* response written.                                                       *)
(***************************************************************************)
InternalServerError ==
  [status |-> 500, body |-> [error |-> "Internal Server Error"],
   written |-> FALSE, fallback |-> TRUE]

\* variant: an envelope with isError = true is answered with 500
PostMcpResponseToolErrorIs500(completion, fault) ==
  IF \/ fault # "none"
     \/ completion.kind = "raise"
     \/ ("isError" \in DOMAIN completion.value /\ completion.value.isError = TRUE)
  THEN InternalServerError
  ELSE [status |-> 200, body |-> completion.value,
        written |-> TRUE, fallback |-> FALSE]

PostMcpResponse(completion, fault) ==
  IF fault \in {"decode", "transmit"} \/ completion.kind = "raise"
  THEN InternalServerError
  ELSE [status |-> 200, body |-> completion.value,
        written |-> TRUE, fallback |-> (fault = "late")]

PostMcpLog(completion, fault) ==
  IF fault # "none" \/ completion.kind = "raise"
  THEN {"Error handling MCP request:"}
  ELSE {}

IdleExchange ==
  [st |-> "idle", req |-> None, session |-> 0, invoked |-> <<>>, outcome |-> None,
   dispatch |-> None, fault |-> "none", status |-> 0, body |-> None,
   written |-> FALSE, fallback |-> FALSE]

IdleCleanup == [pc |-> "unused", cause |-> "none", calls |-> <<>>]

\* variant: app.listen is called when the module loads, not when connect resolves
ServingBeforeConnect == ~exited

\* the server accepts HTTP requests
Serving == phase = "listening" /\ ~exited

(***************************************************************************)
(* The inputs the environment draws from.                                  *)
(***************************************************************************)
UrlArgs == JsObject({<<"url", "https://example.com">>})

OkAbsent == [content |-> <<TextBlock("done")>>]
OkFalse == [content |-> <<TextBlock("done")>>, isError |-> FALSE]
ReportedError == [content |-> <<TextBlock("not found")>>, isError |-> TRUE]

KnownNames == {SwitchCases[i].label : i \in DOMAIN SwitchCases}

ListMethods == {"tools/list", "resources/list", "prompts/list"}

\* the dispatcher alone: every tool name, every kind of outcome, any session
\* header (an issued identifier or none)
FullDomain ==
  [n |-> MaxDispatch,
   methods |-> ListMethods,
   names |-> {TOOLS[i].name : i \in DOMAIN TOOLS} \cup {"unknown_tool", "Navigate", ""},
   args |-> {Undefined, EmptyMap, UrlArgs},
   returns |-> {OkAbsent, OkFalse, ReportedError},
   raises |-> {JsError("Navigation timeout"), JsError(""), JsString("boom"),
               JsNumber(42), JsNull, Undefined, EmptyMap},
   versions |-> {"2024-11-05", "2025-03-26", "0"},
   anySid |-> TRUE]

\* the whole server: concurrent exchanges over a few requests, from clients
\* that present an issued session identifier once there is one
SysDomain ==
  [n |-> MaxExchanges,
   methods |-> {"tools/list"},
   names |-> {"navigate", "unknown_tool"},
   args |-> {UrlArgs},
   returns |-> {OkAbsent},
   raises |-> {JsError("Navigation timeout"), JsString("boom")},
   versions |-> {"2024-11-05", "2025-03-26"},
   anySid |-> FALSE]

\* the mcp-session-id header of a request that is no handshake
Sids(D) ==
  IF D.anySid THEN sessions \cup {0}
  ELSE IF sessions = {} THEN {0} ELSE sessions

Requests(D) ==
  {[sid |-> 0, method |-> "initialize", params |-> [protocolVersion |-> v]] :
     v \in D.versions}
  \cup
  {[sid |-> s, method |-> m, params |-> None] : s \in Sids(D), m \in D.methods}
  \cup
  {[sid |-> s, method |-> "tools/call", params |-> [name |-> n, arguments |-> a]] :
     s \in Sids(D), n \in D.names, a \in D.args}

TransportFaults == {"none", "decode", "transmit", "late"}


(***************************************************************************)
(* Startup: server.connect(transport).then(listen).catch(log).             *)
(***************************************************************************)
Init ==
  /\ phase = "connecting"
  /\ exited = FALSE
  /\ exch = [e \in 1..MaxExchanges |-> IdleExchange]
  /\ sessions = {}
  /\ health = None
  /\ cleanup = [c \in 1..MaxCleanups |-> IdleCleanup]
  /\ log = {}

ConnectResolves ==
  /\ phase = "connecting" /\ ~exited
  /\ phase' = "listening"
  /\ log' = log \cup {"HTTP server is running"}
  /\ UNCHANGED <<exited, exch, sessions, health, cleanup>>

ConnectRejects ==
  /\ phase = "connecting" /\ ~exited
  /\ phase' = "connectFailed"
  /\ log' = log \cup {"Failed to start MCP server:"}
  /\ UNCHANGED <<exited, exch, sessions, health, cleanup>>

(***************************************************************************)
(* The session transport.  The module constructs ONE                       *)
(* StreamableHTTPServerTransport and hands every POST /mcp to it.  A       *)
(* transport object holds one session: the first handshake it accepts      *)
(* calls sessionIdGenerator and makes the result the transport's session;  *)
(* a handshake that reaches a transport that has its session is answered   *)
(* by the transport itself with 400 and never reaches the dispatcher.      *)
(* `sessions` is the set of identifiers issued so far.  The check the      *)
(* transport applies to the header of the other requests is left open:     *)
(* such a request reaches the dispatcher whatever header it bears.         *)
(***************************************************************************)
\* sessionIdGenerator: an identifier no earlier call has produced
SessionIdGenerator == Cardinality(sessions) + 1

\* the one transport has accepted a handshake
TransportInitialized == sessions # {}

AlreadyInitialized ==
  [status |-> 400, body |-> [error |-> "Invalid Request: Server already initialized"]]

\* the session an exchange is bound to: a new one for a handshake, the one the
\* request bears otherwise
BoundSession(req) == IF req.method = "initialize" THEN SessionIdGenerator ELSE req.sid

(***************************************************************************)
(* POST /mcp.  The route runs to its first suspension point: the await of  *)
(* a tool handler.  A request that calls no tool handler is answered in    *)
(* the same step.                                                          *)
(***************************************************************************)
\* the transport turns a handshake down
Rejected(req) ==
  [IdleExchange EXCEPT !.st = "answered", !.req = req,
                       !.status = AlreadyInitialized.status,
                       !.body = AlreadyInitialized.body,
                       !.written = TRUE]

Answered(req, session, invoked, outcome, completion, fault) ==
  [st |-> "answered", req |-> req, session |-> session, invoked |-> invoked,
   outcome |-> outcome, dispatch |-> completion, fault |-> fault,
   status |-> PostMcpResponse(completion, fault).status,
   body |-> PostMcpResponse(completion, fault).body,
   written |-> PostMcpResponse(completion, fault).written,
   fallback |-> PostMcpResponse(completion, fault).fallback]

PostMcp(e, req, fault) ==
  /\ Serving
  /\ exch[e].st = "idle"
  /\ e > 1 => exch[e - 1].st # "idle"
  /\ IF fault = "decode"
     THEN \* the body could not be decoded: no message reaches the dispatcher
          /\ exch' = [exch EXCEPT ![e] =
                        Answered(None, 0, <<>>, None, None, fault)]
          /\ log' = log \cup PostMcpLog(None, fault)
          /\ UNCHANGED sessions
     ELSE IF req.method = "initialize" /\ TransportInitialized
     THEN \* a second handshake on the one transport
          /\ fault = "none"
          /\ exch' = [exch EXCEPT ![e] = Rejected(req)]
          /\ UNCHANGED <<sessions, log>>
     ELSE /\ sessions' = IF req.method = "initialize"
                         THEN sessions \cup {SessionIdGenerator}
                         ELSE sessions
          /\ IF req.method = "tools/call"
             THEN LET name == req.params.name
                      args == req.params.arguments
                  IN IF HandlerCall(name, args) # <<>>
                     THEN \* suspended in `await handleX(...)`
                          /\ fault = "none"
                          /\ exch' = [exch EXCEPT ![e] =
                                        [IdleExchange EXCEPT
                                           !.st = "awaiting", !.req = req,
                                           !.session = BoundSession(req),
                                           !.invoked = HandlerCall(name, args)]]
                          /\ log' = log \cup HandlerLog(req)
                     ELSE \* default branch: throw, catch, answer
                          /\ exch' = [exch EXCEPT ![e] =
                                        Answered(req, BoundSession(req), <<>>, None,
                                                 CallToolRequestHandler(name, args, None),
                                                 fault)]
                          /\ log' = log \cup HandlerLog(req) \cup FailureLog(name, None)
                                        \cup PostMcpLog(CallToolRequestHandler(name, args, None), fault)
             ELSE /\ exch' = [exch EXCEPT ![e] =
                                Answered(req, BoundSession(req), <<>>, None,
                                         StaticRequestHandler(req), fault)]
                  /\ log' = log \cup HandlerLog(req)
                                \cup (IF req.method = "initialize"
                                      THEN {"Session initialized"} ELSE {})
                                \cup PostMcpLog(StaticRequestHandler(req), fault)
  /\ UNCHANGED <<phase, exited, health, cleanup>>

\* variant: the route gives up on the call and answers with a timeout
\* failure, whatever the handler does
CompletedOnTimeout(x, outcome, fault) ==
  Answered(x.req, x.session, x.invoked, None,
           Return(CatchToolFailure(JsError("Tool call timed out"))), fault)

\* the awaited tool handler has completed with outcome: the tools/call handler
\* and the route run to their end
Completed(x, outcome, fault) ==
  Answered(x.req, x.session, x.invoked, outcome,
           CallToolRequestHandler(x.req.params.name, x.req.params.arguments, outcome),
           fault)

CompletedLog(x, outcome, fault) ==
  FailureLog(x.req.params.name, outcome)
    \cup PostMcpLog(CallToolRequestHandler(x.req.params.name, x.req.params.arguments,
                                           outcome), fault)

\* the awaited handler returns: answer with its value
HandlerReturns(e, v, fault) ==
  /\ Serving
  /\ exch[e].st = "awaiting"
  /\ exch' = [exch EXCEPT ![e] = Completed(exch[e], Return(v), fault)]
  /\ log' = log \cup CompletedLog(exch[e], Return(v), fault)
  /\ UNCHANGED <<phase, exited, sessions, health, cleanup>>

\* variant: a handler failure fails every call in flight
HandlerRaisesFailsAllInFlight(e, error, fault) ==
  /\ Serving
  /\ exch[e].st = "awaiting"
  /\ exch' = [o \in DOMAIN exch |->
                IF exch[o].st = "awaiting"
                THEN Completed(exch[o], Raise(error), fault)
                ELSE exch[o]]
  /\ log' = log \cup CompletedLog(exch[e], Raise(error), fault)
  /\ UNCHANGED <<phase, exited, sessions, health, cleanup>>

\* variant: a handler failure ends the process
HandlerRaisesAndExits(e, error, fault) ==
  /\ Serving
  /\ exch[e].st = "awaiting"
  /\ exch' = [exch EXCEPT ![e] = Completed(exch[e], Raise(error), fault)]
  /\ log' = log \cup CompletedLog(exch[e], Raise(error), fault)
  /\ exited' = TRUE
  /\ UNCHANGED <<phase, sessions, health, cleanup>>

\* the awaited handler raises: catch, answer
HandlerRaises(e, error, fault) ==
  /\ Serving
  /\ exch[e].st = "awaiting"
  /\ exch' = [exch EXCEPT ![e] = Completed(exch[e], Raise(error), fault)]
  /\ log' = log \cup CompletedLog(exch[e], Raise(error), fault)
  /\ UNCHANGED <<phase, exited, sessions, health, cleanup>>

(***************************************************************************)
(* GET /health.                                                            *)
(***************************************************************************)
\* variant: the probe reports the exchanges that ended in a fault
HealthReportsFaults ==
  /\ Serving
  /\ health' = IF \E e \in DOMAIN exch : exch[e].status = 500
               THEN [status |-> 503, body |-> "Server is degraded"]
               ELSE [status |-> 200, body |-> "Server is healthy"]
  /\ UNCHANGED <<phase, exited, exch, sessions, cleanup, log>>

Health ==
  /\ Serving
  /\ health' = [status |-> 200, body |-> "Server is healthy"]
  /\ UNCHANGED <<phase, exited, exch, sessions, cleanup, log>>


(***************************************************************************)
(* Process-fatal conditions.  setupProcessCleanup (./utils/core-           *)
(* infrastructure.js) listens for the termination signals and for the      *)
(* otherwise-unhandled asynchronous failures; on any of them it logs the   *)
(* condition, runs the callback it was given and, when the callback has    *)
(* settled, lets the process exit; a failure of the callback is logged and *)
(* not raised again.  The listeners of lines 158-164 write their own line. *)
(***************************************************************************)
FatalCauses == {"SIGTERM", "uncaughtException", "unhandledRejection"}

\* process.on('uncaughtException') and process.on('unhandledRejection') of this file
ProcessOnLog(cause) ==
  CASE cause = "uncaughtException" -> {"Uncaught Exception:"}
    [] cause = "unhandledRejection" -> {"Unhandled Rejection:"}
    [] OTHER -> {}

\* the line setupProcessCleanup writes for the condition
SetupProcessCleanupLog(cause) == {"Process-fatal condition: " \o cause}

\* variant: the callback goes straight to forceKillAllChromeProcesses
CleanupCallbackSkipsClose(cause) ==
  [pc |-> "forceKill", cause |-> cause, calls |-> <<"forceKillAllChromeProcesses">>]

\* the cleanup callback up to its first await: log, call closeBrowser
CleanupCallback(cause) ==
  [pc |-> "closeBrowser", cause |-> cause, calls |-> <<"closeBrowser">>]

CleanupCallbackLog == {"Process cleanup triggered"}

FatalCondition(c, cause) ==
  /\ ~exited
  /\ cleanup[c].pc = "unused"
  /\ c > 1 => cleanup[c - 1].pc # "unused"
  /\ cleanup' = [cleanup EXCEPT ![c] = CleanupCallback(cause)]
  /\ log' = log \cup SetupProcessCleanupLog(cause) \cup ProcessOnLog(cause)
                \cup CleanupCallbackLog
  /\ UNCHANGED <<phase, exited, exch, sessions, health>>

\* closeBrowser returns: the callback calls forceKillAllChromeProcesses
CloseBrowserReturns(c) ==
  /\ ~exited
  /\ cleanup[c].pc = "closeBrowser"
  /\ cleanup' = [cleanup EXCEPT ![c].pc = "forceKill",
                                ![c].calls = Append(@, "forceKillAllChromeProcesses")]
  /\ UNCHANGED <<phase, exited, exch, sessions, health, log>>

\* closeBrowser raises: the callback rejects without calling
\* forceKillAllChromeProcesses; setupProcessCleanup logs and lets the process exit
CloseBrowserRaises(c) ==
  /\ ~exited
  /\ cleanup[c].pc = "closeBrowser"
  /\ cleanup' = [cleanup EXCEPT ![c].pc = "failed"]
  /\ log' = log \cup {"Cleanup failed:"}
  /\ exited' = TRUE
  /\ UNCHANGED <<phase, exch, sessions, health>>

\* forceKillAllChromeProcesses returns: the callback resolves, the process exits
ForceKillReturns(c) ==
  /\ ~exited
  /\ cleanup[c].pc = "forceKill"
  /\ cleanup' = [cleanup EXCEPT ![c].pc = "done"]
  /\ exited' = TRUE
  /\ UNCHANGED <<phase, exch, sessions, health, log>>

\* forceKillAllChromeProcesses raises: the callback rejects, the process exits
ForceKillRaises(c) ==
  /\ ~exited
  /\ cleanup[c].pc = "forceKill"
  /\ cleanup' = [cleanup EXCEPT ![c].pc = "failed"]
  /\ log' = log \cup {"Cleanup failed:"}
  /\ exited' = TRUE
  /\ UNCHANGED <<phase, exch, sessions, health>>

(***************************************************************************)
(* Specifications.                                                         *)
(***************************************************************************)
Http(D) ==
  \/ \E e \in 1..D.n, req \in Requests(D), fault \in TransportFaults :
       PostMcp(e, req, fault)
  \/ \E e \in 1..D.n, v \in D.returns, fault \in TransportFaults \ {"decode"} :
       HandlerReturns(e, v, fault)
  \/ \E e \in 1..D.n, error \in D.raises, fault \in TransportFaults \ {"decode"} :
       HandlerRaises(e, error, fault)

\* the whole server
Next ==
  \/ ConnectResolves
  \/ ConnectRejects
  \/ Http(SysDomain)
  \/ Health
  \/ \E c \in 1..MaxCleanups, cause \in FatalCauses : FatalCondition(c, cause)
  \/ \E c \in 1..MaxCleanups : CloseBrowserReturns(c)
  \/ \E c \in 1..MaxCleanups : CloseBrowserRaises(c)
  \/ \E c \in 1..MaxCleanups : ForceKillReturns(c)
  \/ \E c \in 1..MaxCleanups : ForceKillRaises(c)

Spec == Init /\ [][Next]_vars

\* the dispatcher alone, on a server that has started
InitDispatch ==
  /\ phase = "listening"
  /\ exited = FALSE
  /\ exch = [e \in 1..MaxDispatch |-> IdleExchange]
  /\ sessions = {}
  /\ health = None
  /\ cleanup = [c \in 1..MaxCleanups |-> IdleCleanup]
  /\ log = {"HTTP server is running"}

NextDispatch == Http(FullDomain)

SpecDispatch == InitDispatch /\ [][NextDispatch]_vars


(***************************************************************************)
(* Properties.                                                             *)
(***************************************************************************)
\* the exchanges whose message reached the tools/call handler
IsToolCall(x) == x.st # "idle" /\ x.req # None /\ x.req.method = "tools/call"

IsErrorEnvelope(b) == "isError" \in DOMAIN b /\ b.isError = TRUE

\* the handler that was called raised
HandlerRaised(x) == x.outcome # None /\ x.outcome.kind = "raise"

\* the handler that was called returned
HandlerReturned(x) == x.outcome # None /\ x.outcome.kind = "return"

\* lookup failed or the handler raised
ToolFailed(x) == IsToolCall(x) /\ x.st = "answered" /\ (x.invoked = <<>> \/ HandlerRaised(x))

\* the tool names the routing table has a case for
RoutedNames == {TOOL_NAMES[k] : k \in DOMAIN TOOL_NAMES}

C2_UnknownTool ==
  \A e \in DOMAIN exch :
    (IsToolCall(exch[e]) /\ exch[e].req.params.name \notin RoutedNames) =>
      /\ exch[e].st = "answered"
      /\ exch[e].invoked = <<>>
      /\ exch[e].outcome = None
      /\ exch[e].dispatch.kind = "return"
      /\ IsErrorEnvelope(exch[e].dispatch.value)
      /\ exch[e].fault = "none" =>
           (exch[e].status = 200 /\ exch[e].body = exch[e].dispatch.value)

\* an unknown tool name has been answered with 200 and an error envelope
C2_Witness ==
  \E e \in DOMAIN exch :
    /\ IsToolCall(exch[e])
    /\ exch[e].req.params.name = "unknown_tool"
    /\ exch[e].status = 200
    /\ IsErrorEnvelope(exch[e].body)

\* the message the catch block is to report for a failed tools/call
ExpectedMessage(x) ==
  IF x.invoked = <<>> THEN "Unknown tool: " \o x.req.params.name
  ELSE IF x.outcome.value.js = "Error" THEN x.outcome.value.message
  ELSE String(x.outcome.value)

\* C3: after a failure of the lookup or of the handler, the returned envelope
\* is exactly {content: [one block of type "text" whose text is the failure
\* prefix followed by the message], isError: true}, the message being the
\* raised value's message when it is an Error and String(value) otherwise.
C3_FailureEnvelope ==
  \A e \in DOMAIN exch :
    ToolFailed(exch[e]) =>
      /\ exch[e].dispatch.value =
           [content |-> <<[type |-> "text",
                           text |-> FailurePrefix \o ExpectedMessage(exch[e])]>>,
            isError |-> TRUE]
      /\ Len(exch[e].dispatch.value.content) = 1

\* a handler has raised an Error and the envelope carries its bare message
C3_Witness ==
  \E e \in DOMAIN exch :
    /\ ToolFailed(exch[e])
    /\ exch[e].outcome = Raise(JsError("Navigation timeout"))
    /\ exch[e].body.content[1].text = FailurePrefix \o "Navigation timeout"

\* C4: when the routed handler returns, the tools/call handler returns the very
\* value the handler returned, and that value is the body of the 200 response.
C4_PassThrough ==
  \A e \in DOMAIN exch :
    (exch[e].st = "answered" /\ HandlerReturned(exch[e])) =>
      /\ exch[e].dispatch = exch[e].outcome
      /\ exch[e].fault = "none" =>
           (exch[e].status = 200 /\ exch[e].body = exch[e].outcome.value)

\* a handler has returned an envelope that itself carries isError = true, and
\* the envelope has gone out as it was
C4_Witness ==
  \E e \in DOMAIN exch :
    /\ exch[e].st = "answered"
    /\ exch[e].fault = "none"
    /\ exch[e].outcome = Return(ReportedError)
    /\ exch[e].body = ReportedError


\* the exchanges whose message reached the initialize handler
IsHandshake(x) ==
  x.st = "answered" /\ x.req # None /\ x.req.method = "initialize" /\ x.dispatch # None

C6_Http500OnlyOnTransportFault ==
  \A e \in DOMAIN exch :
    exch[e].st = "answered" =>
      /\ exch[e].status \in {200, 400, 500}
      /\ exch[e].status = 500 <=> exch[e].fault \in {"decode", "transmit"}
      /\ exch[e].status = 400 <=> exch[e].dispatch = None /\ exch[e].fault = "none"
      /\ exch[e].status = 500 => exch[e].body = [error |-> "Internal Server Error"]
      /\ exch[e].status = 200 => exch[e].body = exch[e].dispatch.value
      /\ (ToolFailed(exch[e]) /\ exch[e].fault = "none") =>
           (exch[e].status = 200 /\ IsErrorEnvelope(exch[e].body))

\* one exchange has ended in a transport fault and 500, another in a tool
\* failure and 200
C6_Witness ==
  \E e1, e2 \in DOMAIN exch :
    /\ exch[e1].st = "answered" /\ exch[e1].fault # "none" /\ exch[e1].status = 500
    /\ ToolFailed(exch[e2]) /\ HandlerRaised(exch[e2]) /\ exch[e2].status = 200

\* the step completes the tools/call of exchange e with a raised handler
FailingCallStep(e) ==
  /\ exch[e].st = "awaiting"
  /\ exch'[e].st = "answered"
  /\ HandlerRaised(exch'[e])

\* C7: a tools/call whose handler raises leaves the server serving: the step
\* that completes it starts and ends in a state where requests are accepted,
\* and touches no other exchange, no session, and neither the startup nor the
\* cleanup state; and as long as no process-fatal condition has occurred, a
\* server that has answered a failed call accepts requests.
C7_FailingCallKeepsServing ==
  /\ [][\A e \in DOMAIN exch :
          FailingCallStep(e) =>
            /\ Serving /\ Serving'
            /\ \A o \in DOMAIN exch \ {e} : exch'[o] = exch[o]
            /\ UNCHANGED <<phase, exited, sessions, cleanup, health>>]_vars
  /\ [](((\E e \in DOMAIN exch : ToolFailed(exch[e]))
          /\ (\A c \in DOMAIN cleanup : cleanup[c].pc = "unused")) => Serving)

\* after a handler has raised in one exchange, another exchange, received
\* later, has been answered with 200, and so has the health probe
C7_Witness ==
  \E e1, e2 \in DOMAIN exch :
    /\ e1 < e2
    /\ ToolFailed(exch[e1]) /\ HandlerRaised(exch[e1])
    /\ exch[e2].st = "answered" /\ exch[e2].status = 200
    /\ ~IsErrorEnvelope(exch[e2].body)
    /\ health # None
    /\ Serving

\* what a request asks of the dispatcher: the message without the session header
Message(x) == [method |-> x.req.method, params |-> x.req.params]

RegistryNames == {TOOLS[i].name : i \in DOMAIN TOOLS}

\* C9: the registry and the routing table agree: every tool of the registry
\* has exactly one descriptor and exactly one case in the switch, and every
\* case is for a tool of the registry; a tools/call for a tool of the registry
\* never takes the default branch but makes one handler call, and when that
\* handler returns a value that is no error envelope, neither is the answer.
C9_RegistryMatchesRouting ==
  /\ \A n \in RegistryNames :
       /\ Cardinality({i \in DOMAIN TOOLS : TOOLS[i].name = n}) = 1
       /\ Cardinality({j \in DOMAIN SwitchCases : SwitchCases[j].label = n}) = 1
  /\ \A j \in DOMAIN SwitchCases : SwitchCases[j].label \in RegistryNames
  /\ \A e \in DOMAIN exch :
       (IsToolCall(exch[e]) /\ exch[e].req.params.name \in RegistryNames) =>
         /\ Len(exch[e].invoked) = 1
         /\ ~(exch[e].st = "answered" /\ exch[e].outcome = None)
         /\ (/\ exch[e].st = "answered"
             /\ HandlerReturned(exch[e])
             /\ ~IsErrorEnvelope(exch[e].outcome.value)
             /\ exch[e].fault = "none") =>
              (exch[e].status = 200 /\ ~IsErrorEnvelope(exch[e].body))

\* random-scroll has been called, its handler has returned, and the answer is
\* no error envelope
C9_Witness ==
  \E e \in DOMAIN exch :
    /\ exch[e].st = "answered"
    /\ exch[e].req # None
    /\ exch[e].req.method = "tools/call"
    /\ exch[e].req.params.name = "random-scroll"
    /\ exch[e].invoked = <<[handler |-> "handleRandomScroll", args |-> <<>>]>>
    /\ HandlerReturned(exch[e])
    /\ exch[e].status = 200
    /\ ~IsErrorEnvelope(exch[e].body)

\* the cleanup run c has settled
Settled(c) == cleanup[c].pc \in {"done", "failed"}

\* C10: on a process-fatal condition (a termination signal, an uncaught
\* exception, an unhandled rejection) the condition is logged and the cleanup
\* is triggered, closeBrowser first and forceKillAllChromeProcesses once
\* closeBrowser has returned, before the process exits: a process that has
\* exited has a settled cleanup run, and every cleanup run, from its first
\* step on, has its condition in the log and closeBrowser as its first call.
C10_CleanupBeforeExit ==
  /\ exited => \E c \in DOMAIN cleanup : Settled(c)
  /\ \A c \in DOMAIN cleanup :
       cleanup[c].pc # "unused" =>
         /\ cleanup[c].cause \in {"SIGTERM", "uncaughtException", "unhandledRejection"}
         /\ "Process cleanup triggered" \in log
         /\ ("Process-fatal condition: " \o cleanup[c].cause) \in log
         /\ cleanup[c].cause = "uncaughtException" => "Uncaught Exception:" \in log
         /\ cleanup[c].cause = "unhandledRejection" => "Unhandled Rejection:" \in log
         /\ Len(cleanup[c].calls) >= 1
         /\ cleanup[c].calls[1] = "closeBrowser"
         /\ cleanup[c].pc = "done" =>
              cleanup[c].calls = <<"closeBrowser", "forceKillAllChromeProcesses">>

\* the process has exited after an uncaught exception, both cleanup steps done
C10_Witness ==
  /\ exited
  /\ \E c \in DOMAIN cleanup :
       /\ cleanup[c].pc = "done"
       /\ cleanup[c].cause = "uncaughtException"
       /\ cleanup[c].calls = <<"closeBrowser", "forceKillAllChromeProcesses">>
       /\ "Uncaught Exception:" \in log

\* a handshake the transport has received: the body was decoded
HandshakeReceived(x) == x.st = "answered" /\ x.req # None /\ x.req.method = "initialize"

\* C11: every handshake the transport receives is given a session identifier
\* of its own, one that sessionIdGenerator produced for it and that no other
\* handshake was given, also when a session exists already; and a request
\* that is no handshake and bears an issued identifier is bound to the session
\* of that identifier.
C11_SessionPerHandshake ==
  /\ \A e \in DOMAIN exch :
       HandshakeReceived(exch[e]) =>
         /\ exch[e].session \in sessions
         /\ \A o \in DOMAIN exch \ {e} :
              HandshakeReceived(exch[o]) => exch[o].session # exch[e].session
  /\ \A e \in DOMAIN exch :
       (/\ exch[e].st # "idle" /\ exch[e].req # None
        /\ exch[e].req.method # "initialize"
        /\ exch[e].req.sid \in sessions) =>
         exch[e].session = exch[e].req.sid

\* C12: GET /health is answered with 200 and "Server is healthy" whatever was
\* requested before, failed tool calls and transport faults included, and the
\* step that answers it changes nothing but the answer.
C12_HealthFixed ==
  /\ [](health # None => health = [status |-> 200, body |-> "Server is healthy"])
  /\ [][health' # health =>
         UNCHANGED <<phase, exited, exch, sessions, cleanup, log>>]_vars

\* the probe has been answered after a tool call that failed and an exchange
\* that ended in a transport fault
C12_Witness ==
  /\ health = [status |-> 200, body |-> "Server is healthy"]
  /\ \E e1, e2 \in DOMAIN exch :
       /\ ToolFailed(exch[e1])
       /\ exch[e2].st = "answered" /\ exch[e2].fault # "none"

\* the exchanges whose message is a catalog query
IsCatalogQuery(x) == x.st # "idle" /\ x.req # None /\ x.req.method \in ListMethods

BoundHandler ==
  {<<"browser-init", "handleBrowserInit">>, <<"navigate", "handleNavigate">>,
   <<"get-content", "handleGetContent">>, <<"click", "handleClick">>,
   <<"type", "handleType">>, <<"wait", "handleWait">>,
   <<"browser-close", "handleBrowserClose">>, <<"solve-captcha", "handleSolveCaptcha">>,
   <<"random-scroll", "handleRandomScroll">>, <<"find-selector", "handleFindSelector">>,
   <<"save-content-as-markdown", "handleSaveContentAsMarkdown">>}

\* C14: a tools/call for a name of the routing table calls one handler, the
\* one its case is written to call, once: from the step that receives the
\* request until the exchange is answered the calls made for it are that one
\* call, also when the handler raises; it is answered only once that call has
\* ended; and a name outside the table leads to no handler call at all.
C14_OneHandlerOnce ==
  \A e \in DOMAIN exch :
    IsToolCall(exch[e]) =>
      IF exch[e].req.params.name \in {b[1] : b \in BoundHandler}
      THEN /\ Len(exch[e].invoked) = 1
           /\ <<exch[e].req.params.name, exch[e].invoked[1].handler>> \in BoundHandler
           /\ exch[e].st = "answered" => exch[e].outcome # None
      ELSE exch[e].invoked = <<>>

\* click has been called, handleClick has raised, and the exchange has been
\* answered after that one call
C14_Witness ==
  \E e \in DOMAIN exch :
    /\ IsToolCall(exch[e])
    /\ exch[e].req.params.name = "click"
    /\ exch[e].st = "answered"
    /\ HandlerRaised(exch[e])
    /\ exch[e].invoked = <<[handler |-> "handleClick", args |-> <<exch[e].req.params.arguments>>]>>
    /\ IsErrorEnvelope(exch[e].body)

\* C15: handleBrowserInit and handleGetContent are called with an empty
\* object when the request has no arguments and with the request's arguments
\* otherwise; handleNavigate, handleClick, handleType, handleWait,
\* handleSolveCaptcha, handleFindSelector and handleSaveContentAsMarkdown are
\* called with the request's arguments as they are, undefined when absent.
C15_ArgumentForwarding ==
  \A e \in DOMAIN exch :
    IsToolCall(exch[e]) =>
      LET name == exch[e].req.params.name
          args == exch[e].req.params.arguments
      IN /\ name \in {"browser-init", "get-content"} =>
              /\ Len(exch[e].invoked) = 1
              /\ exch[e].invoked[1].args =
                   <<IF args = Undefined THEN JsObject({}) ELSE args>>
         /\ name \in {"navigate", "click", "type", "wait", "solve-captcha",
                       "find-selector", "save-content-as-markdown"} =>
              /\ Len(exch[e].invoked) = 1
              /\ exch[e].invoked[1].args = <<args>>

\* navigate has been called without arguments and handleNavigate has been
\* handed undefined
C15_Witness ==
  \E e \in DOMAIN exch :
    /\ IsToolCall(exch[e])
    /\ exch[e].req.params.name = "navigate"
    /\ exch[e].req.params.arguments = Undefined
    /\ exch[e].invoked = <<[handler |-> "handleNavigate", args |-> <<Undefined>>]>>

\* C16: in every cleanup run forceKillAllChromeProcesses is called only once
\* closeBrowser has returned; a cleanup step that raises is logged; and a run
\* that has settled, with or without a failure, has attempted both steps,
\* closeBrowser and then forceKillAllChromeProcesses.
C16_BothStepsAttempted ==
  \A c \in DOMAIN cleanup :
    /\ cleanup[c].pc = "closeBrowser" => cleanup[c].calls = <<"closeBrowser">>
    /\ cleanup[c].pc = "forceKill" =>
         cleanup[c].calls = <<"closeBrowser", "forceKillAllChromeProcesses">>
    /\ cleanup[c].pc = "failed" => "Cleanup failed:" \in log
    /\ Settled(c) =>
         cleanup[c].calls = <<"closeBrowser", "forceKillAllChromeProcesses">>

\* the step ends the handler call of exchange e
CompletionStep(e) == exch[e].st = "awaiting" /\ exch'[e].st = "answered"

\* C17: handler calls are not serialized and do not interfere: while one call
\* is in flight another request is received and its handler called, the step
\* that ends one call leaves every other exchange as it was, in flight or
\* answered, and whatever the order in which the calls end, each exchange is
\* answered with the envelope made from the outcome of its own call: the
\* returned value, or the failure envelope with the message of the value its
\* own handler raised.
C17_ConcurrentCalls ==
  /\ [](\A e \in DOMAIN exch :
          (exch[e].st = "answered" /\ IsToolCall(exch[e]) /\ exch[e].invoked # <<>>) =>
            /\ HandlerReturned(exch[e]) => exch[e].dispatch = exch[e].outcome
            /\ HandlerRaised(exch[e]) =>
                 exch[e].dispatch =
                   Return([content |-> <<[type |-> "text",
                                          text |-> FailurePrefix \o
                                                     ExpectedMessage(exch[e])]>>,
                           isError |-> TRUE])
            /\ exch[e].fault = "none" =>
                 (exch[e].status = 200 /\ exch[e].body = exch[e].dispatch.value))
  /\ [][\A e \in DOMAIN exch :
          CompletionStep(e) => \A o \in DOMAIN exch \ {e} : exch'[o] = exch[o]]_vars

\* two calls were in flight at once: the one received later has ended, with a
\* failure, and has its failure envelope, while the one received first is
\* still in flight
C17_Witness ==
  \E e1, e2 \in DOMAIN exch :
    /\ e1 < e2
    /\ exch[e1].st = "awaiting" /\ Len(exch[e1].invoked) = 1
    /\ exch[e2].st = "answered" /\ HandlerRaised(exch[e2])
    /\ exch[e2].status = 200 /\ IsErrorEnvelope(exch[e2].body)

\* a tools/call whose handler has been called
HandlerCalled(x) == IsToolCall(x) /\ x.invoked # <<>>

\* C18: no timeout and no cancellation: a tools/call whose handler has been
\* called is answered exactly when that call has ended: while the call is
\* in flight nothing has been written for the exchange, the only step that
\* changes the exchange is the end of the call, which answers it, and an
\* answered exchange is never answered again; meanwhile GET /health stays
\* possible for as long as the server serves.
C18_NoTimeout ==
  /\ [](\A e \in DOMAIN exch :
          HandlerCalled(exch[e]) =>
            /\ exch[e].st = "answered" <=> exch[e].outcome # None
            /\ exch[e].st = "awaiting" =>
                 /\ exch[e].status = 0 /\ exch[e].body = None
                 /\ ~exch[e].written /\ ~exch[e].fallback
                 /\ Serving => ENABLED Health)
  /\ [][\A e \in DOMAIN exch :
          (exch[e].st = "awaiting" /\ exch'[e] # exch[e]) =>
            /\ exch'[e].st = "answered"
            /\ exch'[e].outcome # None
            /\ exch'[e].req = exch[e].req]_vars
  /\ [][\A e \in DOMAIN exch :
          exch[e].st = "answered" => exch'[e] = exch[e]]_vars

\* a call received first is still in flight and unanswered while a request
\* received after it has been answered, and so has the health probe
C18_Witness ==
  \E e1, e2 \in DOMAIN exch :
    /\ e1 < e2
    /\ exch[e1].st = "awaiting" /\ exch[e1].status = 0
    /\ exch[e2].st = "answered" /\ exch[e2].status = 200
    /\ health # None

C20_ListenAfterConnect ==
  /\ []((health # None \/ \E e \in DOMAIN exch : exch[e].st # "idle") =>
          (phase = "listening" /\ "HTTP server is running" \in log))
  /\ [](phase = "connectFailed" =>
          /\ "Failed to start MCP server:" \in log
          /\ "HTTP server is running" \notin log
          /\ health = None
          /\ \A e \in DOMAIN exch : exch[e] = IdleExchange)
  /\ [][phase = "connectFailed" => phase' = "connectFailed"]_vars
  /\ [][phase' = "listening" => phase \in {"connecting", "listening"}]_vars

\* the connection has failed, the failure is logged, and the process has gone
\* through its cleanup without a request having been received
C20_Witness ==
  /\ phase = "connectFailed"
  /\ "Failed to start MCP server:" \in log
  /\ exited
  /\ health = None
  /\ \A e \in DOMAIN exch : exch[e].st = "idle"

====
